---------------------------- MODULE Spec2Model ----------------------------
(***************************************************************************)
(* Model of the SareeCatalog component (src/src/sareecategoly.tsx): the    *)
(* catalog fetch with its error / retry handling, the normalization of the *)
(* response, the filter / search computation and the local view state.     *)
(*                                                                         *)
(* Representation of JavaScript values:                                    *)
(*   - a string is a sequence of one-character strings, <<"a", "b">>;      *)
(*   - undefined and null, where a string may stand, are the sequences     *)
(*     Undefined and Null, whose single element is not a character;        *)
(*   - a JSON object is a record with jsonType = "object" and one field    *)
(*     per property that is present; JSON null and JSON arrays are the     *)
(*     records JNull and JArray(elems).                                    *)
(***************************************************************************)
EXTENDS Integers, Sequences, FiniteSets, TLC

VARIABLES
    catalog,            \* useState<Category[]>([])
    loading,            \* useState(true)
    activeSubfolder,    \* useState<string | null>(null)
    lightboxIndex,      \* useState<number | null>(null)
    lightboxItems,      \* useState<CatalogItem[]>([])
    error,              \* useState<string | null>(null)
    searchQuery,        \* useState("")
    selectedCategories, \* useState<Set<string>>(new Set())
    favorites,          \* useState<Set<string>>(new Set())
    mobileMenuOpen,     \* useState(false)
    viewMode,           \* useState<"grid" | "list">("grid")
    showFilters,        \* useState(false)
    effectRan,          \* whether the mount effect has run
    inflight,           \* number of catalog requests awaiting their answer
    retried,            \* whether the Try Again button has been used
    lastOutcome,        \* the answer the last completed request got
    rawInput,           \* input of the normalization routines (pure checks)
    normOutput,         \* their result
    normPc              \* "idle" | "files" | "sub"

vars == << catalog, loading, activeSubfolder, lightboxIndex, lightboxItems,
           error, searchQuery, selectedCategories, favorites, mobileMenuOpen,
           viewMode, showFilters, effectRan, inflight, retried, lastOutcome,
           rawInput, normOutput, normPc >>

viewVars == << catalog, loading, activeSubfolder, lightboxIndex, lightboxItems,
               error, searchQuery, selectedCategories, favorites,
               mobileMenuOpen, viewMode, showFilters, effectRan, inflight,
               retried, lastOutcome >>

normVars == << rawInput, normOutput, normPc >>

-----------------------------------------------------------------------------
(* JavaScript values *)

Undefined == << "undefined" >>
Null == << "null" >>
EmptyStr == << >>

\* JavaScript truthiness of a string | undefined | null value.
Truthy(v) == v /= Undefined /\ v /= Null /\ v /= EmptyStr

JNull == [jsonType |-> "null"]
JArray(elems) == [jsonType |-> "array", elems |-> elems]
IsJNull(v) == v.jsonType = "null"
IsJArray(v) == v.jsonType = "array"

\* o.k for a string-valued property: undefined when the property is absent.
StrProp(o, k) == IF k \in DOMAIN o THEN o[k] ELSE Undefined

\* Truthiness of o.k for an array/object-valued property.
HasTruthyProp(o, k) == k \in DOMAIN o /\ ~IsJNull(o[k])

Range(s) == {s[i] : i \in 1..Len(s)}

\* s.slice(0, n)
SliceTo(s, n) == SubSeq(s, 1, IF Len(s) < n THEN Len(s) ELSE n)

-----------------------------------------------------------------------------
(* Strings *)

UpperChars == << "A", "B", "C", "D", "E", "F", "G", "H", "I", "J", "K", "L", "M",
                 "N", "O", "P", "Q", "R", "S", "T", "U", "V", "W", "X", "Y", "Z" >>
LowerChars == << "a", "b", "c", "d", "e", "f", "g", "h", "i", "j", "k", "l", "m",
                 "n", "o", "p", "q", "r", "s", "t", "u", "v", "w", "x", "y", "z" >>

\* The lower-case form of each upper-case letter.
LowerOf == [i \in 1..Len(UpperChars) |-> LowerChars[i]]
UpperSet == Range(UpperChars)
UpperIndex == [c \in UpperSet |-> CHOOSE i \in 1..Len(UpperChars) : UpperChars[i] = c]

ToLowerChar(c) == IF c \in UpperSet THEN LowerOf[UpperIndex[c]] ELSE c

\* The exception a property read of undefined or null throws.
TypeError == "TypeError"

\* Whether v.toLowerCase() throws: v is undefined or null.
ToLowerCaseThrows(v) == v = Undefined \/ v = Null

\* String.prototype.toLowerCase
toLowerCase(s) == [i \in 1..Len(s) |-> ToLowerChar(s[i])]

\* String.prototype.includes
includes(hay, needle) ==
    \E i \in 0..(Len(hay) - Len(needle)) :
        SubSeq(hay, i + 1, i + Len(needle)) = needle

RECURSIVE SplitFrom(_, _, _, _)
\* s.split(sep) for a one-character sep: the parts of s[i..], cur being the
\* part read so far.
SplitFrom(s, sep, i, cur) ==
    IF i > Len(s) THEN << cur >>
    ELSE IF s[i] = sep THEN << cur >> \o SplitFrom(s, sep, i + 1, << >>)
    ELSE SplitFrom(s, sep, i + 1, Append(cur, s[i]))

split(s, sep) == SplitFrom(s, sep, 1, << >>)

RECURSIVE join(_, _)
\* parts.join(sep)
join(parts, sep) ==
    IF Len(parts) = 0 THEN << >>
    ELSE IF Len(parts) = 1 THEN parts[1]
    ELSE parts[1] \o << sep >> \o join(Tail(parts), sep)

\* parts.slice(0, -1)
DropLast(parts) == SubSeq(parts, 1, Len(parts) - 1)

\* f.fileName?.split(".").slice(0, -1).join(".")
FileNameStem(fileName) ==
    IF fileName = Undefined \/ fileName = Null THEN Undefined
    ELSE join(DropLast(split(fileName, ".")), ".")

DrivePrefix == << "https://drive.google.com/uc?id=" >>

-----------------------------------------------------------------------------
(* Normalization of the response: item records *)

\* normalizeFileObj: null for a null record, otherwise {id, name, image}.
normalizeFileObj(f) ==
    IF IsJNull(f) THEN JNull
    ELSE LET id == IF Truthy(StrProp(f, "id")) THEN StrProp(f, "id")
                   ELSE IF Truthy(StrProp(f, "fileId")) THEN StrProp(f, "fileId")
                   ELSE StrProp(f, "name")
             stem == FileNameStem(StrProp(f, "fileName"))
             name == IF Truthy(StrProp(f, "name")) THEN StrProp(f, "name")
                     ELSE IF Truthy(StrProp(f, "title")) THEN StrProp(f, "title")
                     ELSE IF Truthy(stem) THEN stem
                     ELSE id
             image == IF Truthy(StrProp(f, "image")) THEN StrProp(f, "image")
                      ELSE IF Truthy(id) THEN DrivePrefix \o id
                      ELSE Null
         IN [id |-> id, name |-> name, image |-> image]

\* arr.map(normalizeFileObj)
MapNormalize(arr) == [i \in 1..Len(arr) |-> normalizeFileObj(arr[i])]

RECURSIVE FilterNotNull(_)
\* .filter((f) => f !== null)
FilterNotNull(a) ==
    IF a = << >> THEN << >>
    ELSE IF a[1] = JNull THEN FilterNotNull(Tail(a))
    ELSE << a[1] >> \o FilterNotNull(Tail(a))

\* a.findIndex((x) => x.id === id), 1-based; 0 when there is none.
FindIndexById(a, id) ==
    IF \E i \in 1..Len(a) : a[i].id = id
    THEN CHOOSE i \in 1..Len(a) : a[i].id = id /\ \A j \in 1..(i - 1) : a[j].id /= id
    ELSE 0

\* Variant of KeepFirstOfId with findLastIndex for findIndex.
KeepLastOfId(a, i) ==
    Truthy(a[i].id) /\ \A j \in (i + 1)..Len(a) : a[j].id /= a[i].id

\* The callback of the last filter: v.id && a.findIndex(...) === i
KeepFirstOfId(a, i) == Truthy(a[i].id) /\ FindIndexById(a, a[i].id) = i

RECURSIVE FilterFirstOfId(_, _)
\* .filter((v, i, a) => v.id && a.findIndex((x) => x.id === v.id) === i),
\* over the positions 1..n of a.
FilterFirstOfId(a, n) ==
    IF n = 0 THEN << >>
    ELSE IF KeepFirstOfId(a, n) THEN Append(FilterFirstOfId(a, n - 1), a[n])
    ELSE FilterFirstOfId(a, n - 1)

normalizeFilesArray(arr) ==
    LET a == FilterNotNull(MapNormalize(arr))
    IN FilterFirstOfId(a, Len(a))

-----------------------------------------------------------------------------
(* Normalization of the response: subfolders and categories *)

PreviewLimit == 5

\* sub.preview || sub.files || []   and   sub.all || sub.files || []
FirstTruthyProp(sub, k) ==
    IF HasTruthyProp(sub, k) THEN sub[k]
    ELSE IF HasTruthyProp(sub, "files") THEN sub.files
    ELSE JArray(<< >>)

\* Variant of PreviewOf without .slice(0, 5).
PreviewOfNoSlice(sub) == normalizeFilesArray(FirstTruthyProp(sub, "preview").elems)

\* const preview = normalizeFilesArray(sub.preview || sub.files || []).slice(0, 5)
PreviewOf(sub) ==
    SliceTo(normalizeFilesArray(FirstTruthyProp(sub, "preview").elems), PreviewLimit)

\* const all = normalizeFilesArray(sub.all || sub.files || [])
AllOf(sub) == normalizeFilesArray(FirstTruthyProp(sub, "all").elems)

\* Variant of NormalizeSub without the fallback of all to the preview.
NormalizeSubNoFallback(sub) ==
    [id |-> StrProp(sub, "id"),
     name |-> StrProp(sub, "name"),
     preview |-> PreviewOf(sub),
     all |-> AllOf(sub)]

\* The callback of (cat.subfolders || []).map, for a sub it does not throw on.
NormalizeSub(sub) ==
    [id |-> StrProp(sub, "id"),
     name |-> StrProp(sub, "name"),
     preview |-> PreviewOf(sub),
     all |-> IF Len(AllOf(sub)) /= 0 THEN AllOf(sub) ELSE PreviewOf(sub)]

\* Whether the callback throws a TypeError on sub: a property read of null,
\* or .map of a value that is not an array.
SubThrows(sub) ==
    \/ IsJNull(sub)
    \/ ~IsJArray(FirstTruthyProp(sub, "preview"))
    \/ ~IsJArray(FirstTruthyProp(sub, "all"))

\* cat.subfolders || []
SubfoldersOf(cat) ==
    IF HasTruthyProp(cat, "subfolders") THEN cat.subfolders ELSE JArray(<< >>)

\* Whether the callback of data.map throws on cat.
CategoryThrows(cat) ==
    \/ IsJNull(cat)
    \/ ~IsJArray(SubfoldersOf(cat))
    \/ \E i \in 1..Len(SubfoldersOf(cat).elems) : SubThrows(SubfoldersOf(cat).elems[i])

NormalizeCategory(cat) ==
    [id |-> StrProp(cat, "id"),
     name |-> StrProp(cat, "name"),
     subfolders |-> [i \in 1..Len(SubfoldersOf(cat).elems) |->
                        NormalizeSub(SubfoldersOf(cat).elems[i])]]

\* Whether building `normalized` throws on the array data.
NormalizeThrows(data) == \E i \in 1..Len(data.elems) : CategoryThrows(data.elems[i])

\* const normalized: Category[] = data.map(...)
Normalize(data) == [i \in 1..Len(data.elems) |-> NormalizeCategory(data.elems[i])]

-----------------------------------------------------------------------------
(* The request and its answers *)

ErrorMessage == << "Cannot fetch catalog" >>

\* Variant of tryFetchJson without `if (!res.ok) return null`.
tryFetchJsonNoStatusCheck(outcome) ==
    IF outcome.kind = "reject" THEN JNull
    ELSE IF ~outcome.parses THEN JNull
    ELSE outcome.body

\* tryFetchJson: null when fetch rejects, when the status is not OK and when
\* res.json() rejects; the parsed body otherwise.
tryFetchJson(outcome) ==
    IF outcome.kind = "reject" THEN JNull
    ELSE IF ~outcome.ok THEN JNull
    ELSE IF ~outcome.parses THEN JNull
    ELSE outcome.body

\* Array.isArray(data)
IsArray(data) == IsJArray(data)

-----------------------------------------------------------------------------
(* Bounds and inputs *)

MaxInflight == 2     \* cap on the requests awaiting an answer
MaxFavorites == 1    \* ids the user favorites at one time
MaxArr == 3          \* length of the generated item arrays
MaxTail == 7         \* length of the run of distinct items appended to them
MaxSubArr == 2       \* length of the generated arrays of a subfolder record

Digits == << "1", "2", "3", "4", "5", "6", "7", "8", "9" >>

\* An item record as the backend lists a Drive file.
FileRec(i) ==
    [jsonType |-> "object",
     fileId   |-> << "f", Digits[i] >>,
     fileName |-> << "s", Digits[i], ".", "j" >>]

Files(n) == JArray([i \in 1..n |-> FileRec(i)])

Str_c1 == << "c", "1" >>
Str_c2 == << "c", "2" >>
Str_c3 == << "c", "3" >>
Str_Silk == << "S", "i", "l", "k" >>
Str_Cotton == << "C", "o", "t", "t", "o", "n" >>
Str_New == << "N", "e", "w" >>
Str_Kanchi == << "K", "a", "n", "c", "h", "i" >>
Str_Soft == << "S", "o", "f", "t" >>
Str_SilkCotton == << "s", "i", "l", "k", " ", "c", "o", "t" >>
Str_Mul == << "M", "u", "l" >>
Str_SoftSilk == << "S", "o", "f", "t", " ", "S", "i", "l", "k" >>

RawSub(id, name, n) ==
    [jsonType |-> "object", id |-> << "s", id >>, name |-> name, files |-> Files(n)]

\* A well-formed catalog: two categories with subfolders, whose names tell
\* the search on the subfolder name from the search on the category name, and
\* a category without subfolders.
BodyA ==
    JArray(<< [jsonType |-> "object", id |-> Str_c1, name |-> Str_Silk,
               subfolders |-> JArray(<< RawSub("1", Str_Kanchi, 1),
                                        RawSub("2", Str_Soft, 2) >>)],
              [jsonType |-> "object", id |-> Str_c2, name |-> Str_Cotton,
               subfolders |-> JArray(<< RawSub("3", Str_SilkCotton, 1) >>)],
              [jsonType |-> "object", id |-> Str_c3, name |-> Str_New] >>)

\* A second well-formed catalog: one category whose subfolders hold 7 items,
\* 6 items, and distinct preview and all fields.
BodyB ==
    JArray(<< [jsonType |-> "object", id |-> Str_c2, name |-> Str_Cotton,
               subfolders |-> JArray(<< RawSub("4", Str_Mul, 7),
                                        RawSub("5", Str_SoftSilk, 6),
                                        [jsonType |-> "object",
                                         id |-> << "s", "6" >>, name |-> Str_Kanchi,
                                         preview |-> Files(1), all |-> Files(7)] >>)] >>)

\* Arrays of category objects in which a name is missing: a category without
\* a name property, and a subfolder whose name is null.
BodyNoCategoryName ==
    JArray(<< [jsonType |-> "object", id |-> Str_c1,
               subfolders |-> JArray(<< RawSub("1", Str_Soft, 1) >>)] >>)
BodyNullSubfolderName ==
    JArray(<< [jsonType |-> "object", id |-> Str_c1, name |-> Str_Silk,
               subfolders |-> JArray(<< RawSub("1", Null, 1) >>)] >>)

\* Bodies of an unexpected shape.
BodyObject == [jsonType |-> "object", message |-> << "o", "k" >>]
BodyNullEntry == JArray(<< JNull >>)
BodyBadSubfolders ==
    JArray(<< [jsonType |-> "object", id |-> Str_c1, name |-> Str_Silk,
               subfolders |-> [jsonType |-> "object"]] >>)
BodyNullSub ==
    JArray(<< [jsonType |-> "object", id |-> Str_c1, name |-> Str_Silk,
               subfolders |-> JArray(<< JNull >>)] >>)

\* Bodies of an unexpected shape on which the normalization does not throw:
\* subfolders null, entries that are not category objects ([{}, []]), and a
\* subfolder whose preview and all are null.
BodyNullSubfolders ==
    JArray(<< [jsonType |-> "object", id |-> Str_c1, name |-> Str_Silk,
               subfolders |-> JNull] >>)
BodyNonObjectEntries == JArray(<< [jsonType |-> "object"], JArray(<< >>) >>)
BodyNullPreviewAll ==
    JArray(<< [jsonType |-> "object", id |-> Str_c1, name |-> Str_Silk,
               subfolders |-> JArray(<< [jsonType |-> "object",
                                         id |-> << "s", "1" >>, name |-> Str_Soft,
                                         preview |-> JNull, all |-> JNull,
                                         files |-> Files(1)] >>)] >>)

\* An answer: fetch rejects, or resolves to a response with its status (ok),
\* whether its text parses as JSON, and the value it parses to.
Rejected == [kind |-> "reject"]
Response(ok, parses, body) ==
    [kind |-> "response", ok |-> ok, parses |-> parses, body |-> body]
OkBody(b) == Response(TRUE, TRUE, b)

\* The answers a request can get: the failures first.
FailedOutcomes ==
    { Rejected,
      Response(FALSE, TRUE, BodyObject),
      Response(FALSE, TRUE, BodyA),
      Response(TRUE, FALSE, JNull) }

WellFormedBodies ==
    { BodyA, BodyB, JArray(<< >>), BodyNoCategoryName, BodyNullSubfolderName }

MalformedBodies ==
    { JNull, BodyObject, BodyNullEntry, BodyBadSubfolders, BodyNullSub,
      BodyNullSubfolders, BodyNonObjectEntries, BodyNullPreviewAll }

Outcomes ==
    FailedOutcomes \cup { OkBody(b) : b \in WellFormedBodies \cup MalformedBodies }

NoOutcome == [kind |-> "none"]

\* What the user types in the search box.
Queries == { EmptyStr, << "s", "i", "l" >>, << "C", "O", "T" >> }

-----------------------------------------------------------------------------
(* Filtering *)

\* Whether the evaluation of matchesSearch throws: sub.name.toLowerCase() is
\* reached when the query is not "", category.name.toLowerCase() when the
\* name of the subfolder does not contain the query.
MatchesSearchThrows(category, sub, query) ==
    /\ query /= EmptyStr
    /\ \/ ToLowerCaseThrows(sub.name)
       \/ /\ ToLowerCaseThrows(category.name)
          /\ ~includes(toLowerCase(sub.name), toLowerCase(query))

\* const matchesSearch = searchQuery === "" || sub.name... || category.name...
MatchesSearch(category, sub, query) ==
    IF MatchesSearchThrows(category, sub, query) THEN TypeError
    ELSE \/ query = EmptyStr
         \/ includes(toLowerCase(sub.name), toLowerCase(query))
         \/ includes(toLowerCase(category.name), toLowerCase(query))

MatchesCategory(category, selected) ==
    \/ Cardinality(selected) = 0
    \/ category.id \in selected

\* The callback of category.subfolders.filter: matchesSearch is evaluated
\* first, and what it throws is thrown by the callback.
SubfolderKept(category, sub, query, selected) ==
    IF MatchesSearchThrows(category, sub, query) THEN TypeError
    ELSE MatchesSearch(category, sub, query) /\ MatchesCategory(category, selected)

\* Whether category.subfolders.filter(...) throws: its callback does on one of
\* the subfolders.
FilterSubfoldersThrows(category, subs, query) ==
    \E i \in 1..Len(subs) : MatchesSearchThrows(category, subs[i], query)

RECURSIVE FilterSubfolders(_, _, _, _)
\* category.subfolders.filter(...), subs being the subfolders still to scan
FilterSubfolders(category, subs, query, selected) ==
    IF subs = << >> THEN << >>
    ELSE IF FilterSubfoldersThrows(category, subs, query) THEN TypeError
    ELSE IF SubfolderKept(category, subs[1], query, selected)
         THEN << subs[1] >> \o FilterSubfolders(category, Tail(subs), query, selected)
         ELSE FilterSubfolders(category, Tail(subs), query, selected)

\* { ...category, subfolders: category.subfolders.filter(...) }
FilterCategory(category, query, selected) ==
    IF FilterSubfoldersThrows(category, category.subfolders, query) THEN TypeError
    ELSE [category EXCEPT !.subfolders =
             FilterSubfolders(category, category.subfolders, query, selected)]

RECURSIVE FilterNonEmpty(_)
\* .filter((category) => category.subfolders.length > 0)
FilterNonEmpty(cats) ==
    IF cats = << >> THEN << >>
    ELSE IF Len(cats[1].subfolders) > 0 THEN << cats[1] >> \o FilterNonEmpty(Tail(cats))
    ELSE FilterNonEmpty(Tail(cats))

\* Whether the useMemo callback throws: it does not take the early return and
\* the filter of a category throws.
FilteredCatalogThrows(cat, query, selected) ==
    /\ ~(~Truthy(query) /\ Cardinality(selected) = 0)
    /\ \E i \in 1..Len(cat) : FilterSubfoldersThrows(cat[i], cat[i].subfolders, query)

\* The useMemo callback, on the values it depends on.
FilteredCatalogOf(cat, query, selected) ==
    IF ~Truthy(query) /\ Cardinality(selected) = 0 THEN cat
    ELSE IF FilteredCatalogThrows(cat, query, selected) THEN TypeError
    ELSE FilterNonEmpty([i \in 1..Len(cat) |-> FilterCategory(cat[i], query, selected)])

filteredCatalog == FilteredCatalogOf(catalog, searchQuery, selectedCategories)

-----------------------------------------------------------------------------
(* What is rendered *)

\* Whether the render throws: the useMemo callback does, in any view, or the
\* main view does at category.name.toLowerCase() of the section of a category
\* of filteredCatalog (one of the categories of catalog).
RenderThrows ==
    \/ FilteredCatalogThrows(catalog, searchQuery, selectedCategories)
    \/ /\ ~loading
       /\ ~Truthy(error)
       /\ \E i \in 1..Len(catalog) : ToLowerCaseThrows(catalog[i].name)
       /\ LET shown == filteredCatalog
          IN \E i \in 1..Len(shown) : ToLowerCaseThrows(shown[i].name)

\* The view the component returns: the loading view, the error view with its
\* Try Again button, or the main view; nothing is left of the component once
\* its render has thrown.
View ==
    IF RenderThrows THEN "unmounted"
    ELSE IF loading THEN "loading"
    ELSE IF Truthy(error) THEN "error"
    ELSE "main"

ViewAllThreshold == 6

\* const isActive = activeSubfolder === sub.id
IsActive(sub) == activeSubfolder = sub.id

\* Variant of Images that takes sub.all whether sub is expanded or not.
ImagesAlwaysAll(sub) == sub.all

\* const images = isActive ? sub.all : sub.preview
Images(sub) == IF IsActive(sub) THEN sub.all ELSE sub.preview

\* Whether the View All / Show Less button of sub is rendered.
ToggleOffered(sub) == Len(sub.all) > ViewAllThreshold \/ IsActive(sub)

\* The subfolders rendered in the main view.
ShownSubfolders ==
    IF View /= "main" THEN {}
    ELSE LET shown == filteredCatalog
         IN UNION { Range(shown[i].subfolders) : i \in 1..Len(shown) }

CategoryIds == { catalog[i].id : i \in 1..Len(catalog) }

NullIndex == -1

\* {sub.all.length} exquisite pieces in this collection
PieceCount(sub) == Len(sub.all)

\* Cart ({favorites.size})
CartCount == Cardinality(favorites)

-----------------------------------------------------------------------------
(* Initial state *)

NormIdle == rawInput = << >> /\ normOutput = << >> /\ normPc = "idle"

InitView ==
    /\ catalog = << >>
    /\ loading = TRUE
    /\ activeSubfolder = Null
    /\ lightboxIndex = NullIndex
    /\ lightboxItems = << >>
    /\ error = Null
    /\ searchQuery = EmptyStr
    /\ selectedCategories = {}
    /\ favorites = {}
    /\ mobileMenuOpen = FALSE
    /\ viewMode = "grid"
    /\ showFilters = FALSE
    /\ effectRan = FALSE
    /\ inflight = 0
    /\ retried = FALSE
    /\ lastOutcome = NoOutcome

Init == InitView /\ NormIdle

-----------------------------------------------------------------------------
(* loadCatalog *)

\* Variant of LoadCatalogStart without setError(null).
LoadCatalogStartKeepError ==
    /\ loading' = TRUE
    /\ error' = error
    /\ inflight' = inflight + 1
    /\ UNCHANGED << catalog, activeSubfolder, lightboxIndex, lightboxItems,
                    searchQuery, selectedCategories, favorites, mobileMenuOpen,
                    viewMode, showFilters, lastOutcome >>

\* Variant of LoadCatalogStart without setLoading(true) and setError(null).
LoadCatalogStartNoReset ==
    /\ loading' = loading
    /\ error' = error
    /\ inflight' = inflight + 1
    /\ UNCHANGED << catalog, activeSubfolder, lightboxIndex, lightboxItems,
                    searchQuery, selectedCategories, favorites, mobileMenuOpen,
                    viewMode, showFilters, lastOutcome >>

\* loadCatalog up to its await: the two state updates and the request.
LoadCatalogStart ==
    /\ loading' = TRUE
    /\ error' = Null
    /\ inflight' = inflight + 1
    /\ UNCHANGED << catalog, activeSubfolder, lightboxIndex, lightboxItems,
                    searchQuery, selectedCategories, favorites, mobileMenuOpen,
                    viewMode, showFilters, lastOutcome >>

\* Variant of MountEffect without the dependency array: the effect runs after
\* every render.
MountEffectEveryRender ==
    /\ inflight < MaxInflight
    /\ effectRan' = TRUE
    /\ LoadCatalogStart
    /\ UNCHANGED << retried, normVars >>

\* useEffect(() => { loadCatalog(); }, [])
MountEffect ==
    /\ ~effectRan
    /\ effectRan' = TRUE
    /\ LoadCatalogStart
    /\ UNCHANGED << retried, normVars >>

\* <Button onClick={loadCatalog}>Try Again</Button> of the error view
Retry ==
    /\ View = "error"
    /\ inflight < MaxInflight
    /\ retried' = TRUE
    /\ LoadCatalogStart
    /\ UNCHANGED << effectRan, normVars >>

\* loadCatalog from its await on, the request having got `outcome`: the state
\* updates made before it returns or throws are applied together.
LoadCatalogResume(outcome) ==
    /\ inflight > 0
    /\ inflight' = inflight - 1
    /\ lastOutcome' = outcome
    /\ loading' = FALSE
    /\ LET data == tryFetchJson(outcome)
       IN IF ~IsArray(data)
          THEN error' = ErrorMessage /\ catalog' = catalog
          ELSE IF NormalizeThrows(data)
          THEN error' = error /\ catalog' = catalog
          ELSE error' = error /\ catalog' = Normalize(data)
    /\ UNCHANGED << activeSubfolder, lightboxIndex, lightboxItems, searchQuery,
                    selectedCategories, favorites, mobileMenuOpen, viewMode,
                    showFilters, effectRan, retried, normVars >>

Answer == \E outcome \in Outcomes : LoadCatalogResume(outcome)

-----------------------------------------------------------------------------
(* UI state handlers, each enabled when the element it is bound to is rendered *)

\* Variant of SetSearchQuery that also collapses the expanded subfolder.
SetSearchQueryCollapse(q) ==
    /\ View = "main"
    /\ q /= searchQuery
    /\ searchQuery' = q
    /\ activeSubfolder' = Null
    /\ UNCHANGED << catalog, loading, lightboxIndex, lightboxItems,
                    error, selectedCategories, favorites, mobileMenuOpen, viewMode,
                    showFilters, effectRan, inflight, retried, lastOutcome, normVars >>

\* onChange={(e) => setSearchQuery(e.target.value)}
SetSearchQuery(q) ==
    /\ View = "main"
    /\ q /= searchQuery
    /\ searchQuery' = q
    /\ UNCHANGED << catalog, loading, activeSubfolder, lightboxIndex, lightboxItems,
                    error, selectedCategories, favorites, mobileMenuOpen, viewMode,
                    showFilters, effectRan, inflight, retried, lastOutcome, normVars >>

TypeSearch == \E q \in Queries : SetSearchQuery(q)

\* Variant of SelectedCategoriesUpdater that only adds.
SelectedCategoriesUpdaterAddOnly(prev, categoryId) == prev \cup {categoryId}

\* The updater given to setSelectedCategories: a copy of prev with categoryId
\* deleted when prev has it, added otherwise.
SelectedCategoriesUpdater(prev, categoryId) ==
    IF categoryId \in prev THEN prev \ {categoryId} ELSE prev \cup {categoryId}

toggleCategoryFilter(categoryId) ==
    /\ selectedCategories' = SelectedCategoriesUpdater(selectedCategories, categoryId)
    /\ UNCHANGED << catalog, loading, activeSubfolder, lightboxIndex, lightboxItems,
                    error, searchQuery, favorites, mobileMenuOpen, viewMode,
                    showFilters, effectRan, inflight, retried, lastOutcome, normVars >>

\* The filter buttons of the panel (one per category of catalog) and the
\* active-filter badges (one per selected id).
ClickCategoryFilter ==
    /\ View = "main"
    /\ \E c \in (IF showFilters THEN CategoryIds ELSE {}) \cup selectedCategories :
          toggleCategoryFilter(c)

\* Variant of clearAllFilters without setSearchQuery("").
clearAllFiltersKeepSearch ==
    /\ selectedCategories' = {}
    /\ searchQuery' = searchQuery
    /\ UNCHANGED << catalog, loading, activeSubfolder, lightboxIndex, lightboxItems,
                    error, favorites, mobileMenuOpen, viewMode, showFilters,
                    effectRan, inflight, retried, lastOutcome, normVars >>

clearAllFilters ==
    /\ selectedCategories' = {}
    /\ searchQuery' = EmptyStr
    /\ UNCHANGED << catalog, loading, activeSubfolder, lightboxIndex, lightboxItems,
                    error, favorites, mobileMenuOpen, viewMode, showFilters,
                    effectRan, inflight, retried, lastOutcome, normVars >>

\* The Clear All button of the filter panel.
ClickClearAll ==
    /\ View = "main"
    /\ showFilters
    /\ Cardinality(selectedCategories) > 0
    /\ clearAllFilters

\* Variant of ActiveSubfolderUpdater that never collapses.
ActiveSubfolderUpdaterNoCollapse(prev, subId) == subId

\* (prev) => (prev === subId ? null : subId)
ActiveSubfolderUpdater(prev, subId) == IF prev = subId THEN Null ELSE subId

toggleSubfolder(subId) ==
    /\ activeSubfolder' = ActiveSubfolderUpdater(activeSubfolder, subId)
    /\ UNCHANGED << catalog, loading, lightboxIndex, lightboxItems, error,
                    searchQuery, selectedCategories, favorites, mobileMenuOpen,
                    viewMode, showFilters, effectRan, inflight, retried,
                    lastOutcome, normVars >>

\* The View All / Show Less button of a rendered subfolder.
ClickToggleSubfolder ==
    /\ View = "main"
    /\ \E sub \in ShownSubfolders : ToggleOffered(sub) /\ toggleSubfolder(sub.id)

openLightbox(items, index) ==
    /\ lightboxItems' = items
    /\ lightboxIndex' = index
    /\ UNCHANGED << catalog, loading, activeSubfolder, error, searchQuery,
                    selectedCategories, favorites, mobileMenuOpen, viewMode,
                    showFilters, effectRan, inflight, retried, lastOutcome,
                    normVars >>

\* A click on an image (or its View button) of a rendered subfolder; index is
\* the 0-based position of the image in the list displayed.
ClickImage ==
    /\ View = "main"
    /\ \E sub \in ShownSubfolders :
          \E index \in 0..(Len(Images(sub)) - 1) : openLightbox(Images(sub), index)

closeLightbox ==
    /\ lightboxIndex' = NullIndex
    /\ lightboxItems' = << >>
    /\ UNCHANGED << catalog, loading, activeSubfolder, error, searchQuery,
                    selectedCategories, favorites, mobileMenuOpen, viewMode,
                    showFilters, effectRan, inflight, retried, lastOutcome,
                    normVars >>

\* Variant of PrevIndexUpdater that does not wrap around.
PrevIndexUpdaterNoWrap(prev, items) ==
    IF prev /= NullIndex THEN prev - 1 ELSE NullIndex

\* (prev) => prev !== null ? (prev > 0 ? prev - 1 : lightboxItems.length - 1) : null
PrevIndexUpdater(prev, items) ==
    IF prev /= NullIndex
    THEN (IF prev > 0 THEN prev - 1 ELSE Len(items) - 1)
    ELSE NullIndex

prevImage ==
    /\ lightboxIndex' = PrevIndexUpdater(lightboxIndex, lightboxItems)
    /\ UNCHANGED << catalog, loading, activeSubfolder, lightboxItems, error,
                    searchQuery, selectedCategories, favorites, mobileMenuOpen,
                    viewMode, showFilters, effectRan, inflight, retried,
                    lastOutcome, normVars >>

\* Variant of NextIndexUpdater that does not wrap around.
NextIndexUpdaterNoWrap(prev, items) ==
    IF prev /= NullIndex THEN prev + 1 ELSE NullIndex

\* (prev) => prev !== null ? (prev < lightboxItems.length - 1 ? prev + 1 : 0) : null
NextIndexUpdater(prev, items) ==
    IF prev /= NullIndex
    THEN (IF prev < Len(items) - 1 THEN prev + 1 ELSE 0)
    ELSE NullIndex

nextImage ==
    /\ lightboxIndex' = NextIndexUpdater(lightboxIndex, lightboxItems)
    /\ UNCHANGED << catalog, loading, activeSubfolder, lightboxItems, error,
                    searchQuery, selectedCategories, favorites, mobileMenuOpen,
                    viewMode, showFilters, effectRan, inflight, retried,
                    lastOutcome, normVars >>

\* The lightbox is rendered when lightboxIndex !== null, in the main view.
LightboxShown == View = "main" /\ lightboxIndex /= NullIndex

ClickClose == LightboxShown /\ closeLightbox
ClickPrev == LightboxShown /\ prevImage
ClickNext == LightboxShown /\ nextImage

\* Variant of FavoritesUpdater that only adds.
FavoritesUpdaterAddOnly(prev, itemId) == prev \cup {itemId}

\* The updater given to setFavorites: a copy of prev with itemId deleted when
\* prev has it, added otherwise.
FavoritesUpdater(prev, itemId) ==
    IF itemId \in prev THEN prev \ {itemId} ELSE prev \cup {itemId}

toggleFavorite(itemId) ==
    /\ favorites' = FavoritesUpdater(favorites, itemId)
    /\ UNCHANGED << catalog, loading, activeSubfolder, lightboxIndex, lightboxItems,
                    error, searchQuery, selectedCategories, mobileMenuOpen, viewMode,
                    showFilters, effectRan, inflight, retried, lastOutcome, normVars >>

\* The heart button of a displayed image.
ClickFavorite ==
    /\ View = "main"
    /\ \E sub \in ShownSubfolders :
          \E i \in 1..Len(Images(sub)) :
             /\ Images(sub)[i].id \in favorites \/ Cardinality(favorites) < MaxFavorites
             /\ toggleFavorite(Images(sub)[i].id)

\* onClick={() => setViewMode("grid")} and onClick={() => setViewMode("list")}
SetViewMode(mode) ==
    /\ View = "main"
    /\ viewMode' = mode
    /\ UNCHANGED << catalog, loading, activeSubfolder, lightboxIndex, lightboxItems,
                    error, searchQuery, selectedCategories, favorites, mobileMenuOpen,
                    showFilters, effectRan, inflight, retried, lastOutcome, normVars >>

ClickViewMode == \E mode \in {"grid", "list"} : SetViewMode(mode)

\* onClick={() => setShowFilters(!showFilters)}
ClickFilters ==
    /\ View = "main"
    /\ showFilters' = ~showFilters
    /\ UNCHANGED << catalog, loading, activeSubfolder, lightboxIndex, lightboxItems,
                    error, searchQuery, selectedCategories, favorites, mobileMenuOpen,
                    viewMode, effectRan, inflight, retried, lastOutcome, normVars >>

\* onClick={() => setMobileMenuOpen(!mobileMenuOpen)}
ClickMobileMenu ==
    /\ View = "main"
    /\ mobileMenuOpen' = ~mobileMenuOpen
    /\ UNCHANGED << catalog, loading, activeSubfolder, lightboxIndex, lightboxItems,
                    error, searchQuery, selectedCategories, favorites, viewMode,
                    showFilters, effectRan, inflight, retried, lastOutcome, normVars >>

Next ==
    \/ MountEffect
    \/ Retry
    \/ Answer
    \/ TypeSearch
    \/ ClickCategoryFilter
    \/ ClickClearAll
    \/ ClickToggleSubfolder
    \/ ClickImage
    \/ ClickClose
    \/ ClickPrev
    \/ ClickNext
    \/ ClickFavorite
    \/ ClickViewMode
    \/ ClickFilters
    \/ ClickMobileMenu

Spec == Init /\ [][Next]_vars

-----------------------------------------------------------------------------
(* The normalization routines on generated inputs *)

Obj == [jsonType |-> "object"]

\* Item records of the shapes normalizeFileObj tells apart.
ItemPool ==
    { Obj @@ [id |-> << "a" >>, name |-> << "N" >>],
      Obj @@ [fileId |-> << "a" >>, title |-> << "T" >>],
      Obj @@ [name |-> << "b" >>],
      Obj @@ [id |-> << "b" >>, title |-> << "t" >>],
      Obj @@ [id |-> << "c" >>, fileName |-> << "x", ".", "y", ".", "z" >>],
      Obj @@ [id |-> << "d" >>, fileName |-> << "x" >>],
      Obj @@ [id |-> EmptyStr, fileId |-> EmptyStr, title |-> << "T" >>],
      Obj @@ [id |-> << "e" >>, name |-> EmptyStr, image |-> << "u" >>],
      Obj,
      JNull }

SeqsUpTo(S, n) == UNION { [1..k -> S] : k \in 0..n }

LongTail == [i \in 1..MaxTail |-> FileRec(i)]

\* The arrays normalizeFilesArray is applied to: every array of at most
\* MaxArr pool items, alone and followed by MaxTail distinct valid items.
FileArrays == { s \o t : s \in SeqsUpTo(ItemPool, MaxArr), t \in { << >>, LongTail } }

InitFiles ==
    /\ InitView
    /\ rawInput \in FileArrays
    /\ normOutput = << >>
    /\ normPc = "files"

NormalizeFilesStep ==
    /\ normPc = "files"
    /\ normOutput' = normalizeFilesArray(rawInput)
    /\ normPc' = "filesDone"
    /\ UNCHANGED << rawInput, viewVars >>

NextFiles == NormalizeFilesStep

SpecFiles == InitFiles /\ [][NextFiles]_vars

Absent == [jsonType |-> "absent"]

SubItemPool ==
    { Obj @@ [id |-> << "a" >>, name |-> << "N" >>],
      Obj @@ [fileId |-> << "a" >>, title |-> << "T" >>],
      Obj @@ [id |-> EmptyStr, title |-> << "T" >>] }

\* What the preview, files and all properties of a subfolder record hold:
\* nothing, null, or an array.
SubArrayChoices ==
    { Absent, JNull, JArray(LongTail) }
        \cup { JArray(s) : s \in SeqsUpTo(SubItemPool, MaxSubArr) }

OptProp(k, v) == IF v = Absent THEN << >> ELSE (k :> v)

RawSubs ==
    { (Obj @@ [id |-> << "s", "1" >>, name |-> Str_Soft])
          @@ OptProp("preview", p) @@ OptProp("files", f) @@ OptProp("all", a) :
      p \in SubArrayChoices, f \in SubArrayChoices, a \in SubArrayChoices }

InitSub ==
    /\ InitView
    /\ rawInput \in RawSubs
    /\ normOutput = << >>
    /\ normPc = "sub"

NormalizeSubStep ==
    /\ normPc = "sub"
    /\ normOutput' = NormalizeSub(rawInput)
    /\ normPc' = "subDone"
    /\ UNCHANGED << rawInput, viewVars >>

\* The View All / Show Less button of the normalized subfolder, once rendered.
ToggleNormalizedSub ==
    /\ normPc = "subDone"
    /\ ToggleOffered(normOutput)
    /\ toggleSubfolder(normOutput.id)

NextSub == NormalizeSubStep \/ ToggleNormalizedSub

SpecSub == InitSub /\ [][NextSub]_vars

-----------------------------------------------------------------------------
(* Properties of the load and of its error handling *)

\* The shape the response is expected to have: an array of category objects
\* whose subfolders, when present, is an array of subfolder objects, whose
\* preview, files and all, when present, are arrays.
IsObject(v) == v.jsonType = "object"

WellFormedSub(sub) ==
    /\ IsObject(sub)
    /\ \A k \in {"preview", "files", "all"} : k \in DOMAIN sub => IsJArray(sub[k])

WellFormedCategory(cat) ==
    /\ IsObject(cat)
    /\ "subfolders" \in DOMAIN cat =>
          /\ IsJArray(cat.subfolders)
          /\ \A i \in 1..Len(cat.subfolders.elems) : WellFormedSub(cat.subfolders.elems[i])

WellFormedBody(b) ==
    /\ IsJArray(b)
    /\ \A i \in 1..Len(b.elems) : WellFormedCategory(b.elems[i])

\* The last request has been answered and no other is awaited.
Settled == effectRan /\ inflight = 0

FetchFailed(outcome) ==
    \/ outcome.kind = "reject"
    \/ outcome.kind = "response" /\ ~outcome.ok

GotBody(outcome) ==
    outcome.kind = "response" /\ outcome.ok /\ outcome.parses

\* C1: when the catalog fetch fails (the request throws, or the status is not
\* OK), loadCatalog ends with loading = false and error = "Cannot fetch
\* catalog", and the error view with its Try Again button is what is shown.
C1_FetchFailureShowsError ==
    (Settled /\ FetchFailed(lastOutcome)) =>
        /\ loading = FALSE
        /\ error = ErrorMessage
        /\ View = "error"
        /\ ENABLED Retry

C1_Witness ==
    /\ Settled
    /\ lastOutcome = Response(FALSE, TRUE, BodyA)
    /\ View = "error"

\* C2: when the fetch succeeds but the body has an unexpected shape, loadCatalog
\* ends in the error state, for every such body.
C2_MalformedBodyShowsError ==
    (Settled /\ GotBody(lastOutcome) /\ ~WellFormedBody(lastOutcome.body)) =>
        /\ Truthy(error)
        /\ View = "error"

\* Once the last request has returned a well-formed array, the main view shows
\* its normalization.
LoadedFrom(outcome) ==
    /\ View = "main"
    /\ error = Null
    /\ loading = FALSE
    /\ catalog = Normalize(outcome.body)

\* C3: the retry action re-runs loadCatalog: it resets error to null and loading
\* to true and issues the request; when that request returns a well-formed array
\* the system ends in the main view with error = null, loading = false and
\* catalog the normalized response; in the error view retry is always available.
C3_RetryReloads ==
    /\ [][(View = "error" /\ inflight' > inflight) =>
             (error' = Null /\ loading' = TRUE /\ inflight' = inflight + 1)]_vars
    /\ []((retried /\ Settled /\ GotBody(lastOutcome) /\ WellFormedBody(lastOutcome.body))
             => LoadedFrom(lastOutcome))
    /\ [](View = "error" => ENABLED Retry)

\* A category or a subfolder of catalog has no name.
CatalogHasNameless ==
    \E i \in 1..Len(catalog) :
        \/ ToLowerCaseThrows(catalog[i].name)
        \/ \E j \in 1..Len(catalog[i].subfolders) :
              ToLowerCaseThrows(catalog[i].subfolders[j].name)

\* After a retry answered by a well-formed array the state is the one C3
\* states; the main view is shown unless a category or a subfolder of the
\* array has no name.
RetryLoadsUnlessNameless ==
    (retried /\ Settled /\ GotBody(lastOutcome) /\ WellFormedBody(lastOutcome.body)) =>
        /\ error = Null
        /\ loading = FALSE
        /\ catalog = Normalize(lastOutcome.body)
        /\ View = "main" \/ CatalogHasNameless

\* C4: at most one catalog request is in flight, and the retry action is
\* offered only when loading = false and no request is pending.
C4_NoConcurrentFetch ==
    /\ inflight \in {0, 1}
    /\ ENABLED Retry => (View = "error" /\ loading = FALSE /\ inflight = 0)

C4_Witness == retried /\ inflight = 1 /\ View = "loading"

\* A load has succeeded: the last answer was a well-formed array, now shown.
Succeeded ==
    /\ Settled
    /\ View = "main"
    /\ GotBody(lastOutcome)
    /\ WellFormedBody(lastOutcome.body)

\* C5: a request is issued only by the mount effect, once, and by the retry of
\* the error view; once a load has succeeded no request is issued and catalog
\* does not change.
C5_RequestsOnlyOnMountAndRetry ==
    /\ [][inflight' > inflight =>
             \/ ~effectRan /\ effectRan'
             \/ effectRan /\ View = "error" /\ retried']_vars
    /\ [][effectRan => effectRan']_vars
    /\ [][Succeeded => /\ inflight' = inflight
                        /\ catalog' = catalog
                        /\ loading' = loading
                        /\ error' = error
                        /\ lastOutcome' = lastOutcome]_vars

C5_Witness ==
    /\ Succeeded
    /\ catalog /= << >>
    /\ searchQuery /= EmptyStr
    /\ favorites /= {}

-----------------------------------------------------------------------------
(* Properties of the normalization *)

RECURSIVE FirstNonEmpty(_)
\* The first non-empty string of vals; undefined when there is none.
FirstNonEmpty(vals) ==
    IF vals = << >> THEN Undefined
    ELSE IF Truthy(vals[1]) THEN vals[1]
    ELSE FirstNonEmpty(Tail(vals))

\* The id a record carries: the first non-empty of its id, fileId and name.
CarriedId(f) ==
    IF IsJNull(f) THEN Undefined
    ELSE FirstNonEmpty(<< StrProp(f, "id"), StrProp(f, "fileId"), StrProp(f, "name") >>)

\* The positions of arr whose record carries an id.
ValidPositions(arr) == { m \in 1..Len(arr) : Truthy(CarriedId(arr[m])) }

\* The first position of arr whose record carries id.
FirstCarrier(arr, id) ==
    CHOOSE m \in ValidPositions(arr) :
        /\ CarriedId(arr[m]) = id
        /\ \A n \in ValidPositions(arr) : CarriedId(arr[n]) = id => m <= n

\* C6: the list returned by normalizeFilesArray holds no two items with the
\* same id; for each id it holds the item of the first record carrying that id;
\* the kept items are in the relative order of the input.
C6_Deduplication ==
    normPc = "filesDone" =>
        /\ \A i, j \in 1..Len(normOutput) :
              i /= j => normOutput[i].id /= normOutput[j].id
        /\ { normOutput[k].id : k \in 1..Len(normOutput) }
              = { CarriedId(rawInput[m]) : m \in ValidPositions(rawInput) }
        /\ \A k \in 1..Len(normOutput) :
              normOutput[k] = normalizeFileObj(rawInput[FirstCarrier(rawInput, normOutput[k].id)])
        /\ \A i, j \in 1..Len(normOutput) :
              i < j => FirstCarrier(rawInput, normOutput[i].id)
                          < FirstCarrier(rawInput, normOutput[j].id)

\* Two records carrying the same id with different contents, and a record of
\* another id after them.
C6_Witness ==
    /\ normPc = "filesDone"
    /\ Len(normOutput) = 2
    /\ \E m, n \in ValidPositions(rawInput) :
          /\ m < n
          /\ CarriedId(rawInput[m]) = CarriedId(rawInput[n])
          /\ normalizeFileObj(rawInput[m]) /= normalizeFileObj(rawInput[n])
          /\ \E q \in ValidPositions(rawInput) : q > n

\* s without its last extension: what precedes its last ".", s itself when it
\* has none.
WithoutLastExtension(s) ==
    IF \E i \in 1..Len(s) : s[i] = "."
    THEN SubSeq(s, 1, (CHOOSE i \in 1..Len(s) :
                          s[i] = "." /\ \A j \in (i + 1)..Len(s) : s[j] /= ".") - 1)
    ELSE s

\* The item the reshaping rule gives for a record that carries an id.
ReshapedItem(f) ==
    LET id == CarriedId(f)
        stem == IF Truthy(StrProp(f, "fileName"))
                THEN WithoutLastExtension(StrProp(f, "fileName"))
                ELSE Undefined
    IN [id |-> id,
        name |-> FirstNonEmpty(<< StrProp(f, "name"), StrProp(f, "title"), stem, id >>),
        image |-> IF Truthy(StrProp(f, "image")) THEN StrProp(f, "image")
                  ELSE DrivePrefix \o id]

\* Every stored item has a non-empty id, a non-empty name and a non-null image.
ItemsComplete(items) ==
    \A k \in 1..Len(items) :
        Truthy(items[k].id) /\ Truthy(items[k].name) /\ items[k].image /= Null

\* C7: every stored item has a non-empty id, a non-empty name and a non-null
\* image; its id is the first non-empty of id, fileId, name; its name the first
\* non-empty of name, title, fileName without its last extension, id; its image
\* the record's image or else the Drive URL of the id; null records and records
\* without id are dropped.
C7_Reshaping ==
    normPc = "filesDone" =>
        /\ ItemsComplete(normOutput)
        /\ { normOutput[k] : k \in 1..Len(normOutput) }
              = { ReshapedItem(rawInput[FirstCarrier(rawInput, CarriedId(rawInput[m]))]) :
                     m \in ValidPositions(rawInput) }

\* The part of C7 the code satisfies: the stored items are complete, and they
\* are the items normalizeFileObj gives for the records that carry an id.
C7_ItemsComplete ==
    normPc = "filesDone" =>
        /\ ItemsComplete(normOutput)
        /\ { normOutput[k].id : k \in 1..Len(normOutput) }
              = { CarriedId(rawInput[m]) : m \in ValidPositions(rawInput) }

-----------------------------------------------------------------------------
(* Properties of the filter / search computation *)

\* The rank in the alphabet of each letter, in either case.
LetterRank ==
    [c \in Range(UpperChars) \cup Range(LowerChars) |->
        CHOOSE i \in 1..Len(UpperChars) : c \in {UpperChars[i], LowerChars[i]}]

\* Two characters that are equal up to the case of a letter.
SameLetter(c, d) ==
    \/ c = d
    \/ /\ c \in DOMAIN LetterRank
       /\ d \in DOMAIN LetterRank
       /\ LetterRank[c] = LetterRank[d]

\* hay contains needle, compared case-insensitively.
ContainsIgnoringCase(hay, needle) ==
    \E i \in 0..(Len(hay) - Len(needle)) :
        \A k \in 1..Len(needle) : SameLetter(hay[i + k], needle[k])

\* The subfolder at position j of the category at position i of catalog appears
\* in the filtered catalog shown, under that category.
AppearsIn(shown, i, j) ==
    \E k \in 1..Len(shown) :
        /\ shown[k].id = catalog[i].id
        /\ shown[k].name = catalog[i].name
        /\ catalog[i].subfolders[j] \in Range(shown[k].subfolders)

Appears(i, j) == AppearsIn(filteredCatalog, i, j)

FilterActive == searchQuery /= EmptyStr \/ selectedCategories /= {}

\* name is a string that contains needle, compared case-insensitively.
NameContains(name, needle) ==
    /\ name /= Undefined
    /\ name /= Null
    /\ ContainsIgnoringCase(name, needle)

\* What the filter asks of the subfolder at position j of the category at
\* position i of catalog.
ShouldAppear(i, j) ==
    /\ \/ searchQuery = EmptyStr
       \/ NameContains(catalog[i].subfolders[j].name, searchQuery)
       \/ NameContains(catalog[i].name, searchQuery)
    /\ \/ selectedCategories = {}
       \/ catalog[i].id \in selectedCategories

\* C8: with a search text or a selected category, a subfolder appears in
\* filteredCatalog exactly when (the search text is empty, or the subfolder name
\* or the category name contains it, case-insensitively) and (no category is
\* selected, or the id of its category is selected). No subfolder appears when
\* the computation of filteredCatalog throws.
C8_FilterResult ==
    FilterActive =>
        IF FilteredCatalogThrows(catalog, searchQuery, selectedCategories)
        THEN \A i \in 1..Len(catalog) :
                \A j \in 1..Len(catalog[i].subfolders) : ~ShouldAppear(i, j)
        ELSE LET shown == filteredCatalog
             IN \A i \in 1..Len(catalog) :
                   \A j \in 1..Len(catalog[i].subfolders) :
                       AppearsIn(shown, i, j) <=> ShouldAppear(i, j)

\* The statement of C8 in the states where the computation of filteredCatalog
\* does not throw.
FilterResultUnlessThrown ==
    (FilterActive /\ ~FilteredCatalogThrows(catalog, searchQuery, selectedCategories)) =>
        LET shown == filteredCatalog
        IN \A i \in 1..Len(catalog) :
              \A j \in 1..Len(catalog[i].subfolders) :
                  AppearsIn(shown, i, j) <=> ShouldAppear(i, j)

RECURSIVE IsSubsequence(_, _)
\* a is b with some of its elements left out.
IsSubsequence(a, b) ==
    IF a = << >> THEN TRUE
    ELSE IF b = << >> THEN FALSE
    ELSE IF a[1] = b[1] THEN IsSubsequence(Tail(a), Tail(b))
    ELSE IsSubsequence(a, Tail(b))

\* The shown category fc is the category c with some subfolders left out.
IsCategoryOf(fc, c) ==
    /\ fc.id = c.id
    /\ fc.name = c.name
    /\ IsSubsequence(fc.subfolders, c.subfolders)

RECURSIVE EmbedsIn(_, _)
\* The categories fcs are categories of cs, in the same order.
EmbedsIn(fcs, cs) ==
    IF fcs = << >> THEN TRUE
    ELSE IF cs = << >> THEN FALSE
    ELSE \/ IsCategoryOf(fcs[1], cs[1]) /\ EmbedsIn(Tail(fcs), Tail(cs))
         \/ EmbedsIn(fcs, Tail(cs))

\* C9: filteredCatalog is a sub-structure of catalog (its categories are
\* categories of catalog in the same order, each with a subsequence of its
\* subfolders, a shown subfolder being unchanged), and with an empty search
\* text and no selected category it is catalog.
C9_FilteredIsSubstructure ==
    /\ ~FilteredCatalogThrows(catalog, searchQuery, selectedCategories)
    /\ EmbedsIn(filteredCatalog, catalog)
    /\ (searchQuery = EmptyStr /\ selectedCategories = {}) => filteredCatalog = catalog

\* The statement of C9 in the states where the computation of filteredCatalog
\* does not throw.
SubstructureUnlessThrown ==
    ~FilteredCatalogThrows(catalog, searchQuery, selectedCategories) =>
        /\ EmbedsIn(filteredCatalog, catalog)
        /\ (searchQuery = EmptyStr /\ selectedCategories = {}) => filteredCatalog = catalog

-----------------------------------------------------------------------------
(* Properties of the expansion of a subfolder *)

RECURSIVE DistinctValid(_, _)
\* The items of the records of arr that carry an id not in seen and not
\* carried by an earlier record of arr.
DistinctValid(arr, seen) ==
    IF arr = << >> THEN << >>
    ELSE IF ~Truthy(CarriedId(arr[1])) \/ CarriedId(arr[1]) \in seen
         THEN DistinctValid(Tail(arr), seen)
         ELSE << normalizeFileObj(arr[1]) >>
                 \o DistinctValid(Tail(arr), seen \cup {CarriedId(arr[1])})

\* The array held by property k of the record, or by files when k is absent
\* (or null); empty when both are.
FieldOrFiles(sub, k) ==
    IF k \in DOMAIN sub /\ sub[k] /= JNull THEN sub[k].elems
    ELSE IF "files" \in DOMAIN sub /\ sub.files /= JNull THEN sub.files.elems
    ELSE << >>

FirstFive(items) == SubSeq(items, 1, IF Len(items) < 5 THEN Len(items) ELSE 5)

\* The list displayed for the normalized subfolder.
Displayed == Images(normOutput)

\* C10: a subfolder that is not expanded displays its preview list: at most 5
\* items, the first five distinct-id valid items of the preview field of the
\* record (of files when preview is absent); the expanded subfolder displays
\* its complete all list.
C10_PaginationByExpansion ==
    normPc = "subDone" =>
        /\ ~IsActive(normOutput) =>
              /\ Displayed = normOutput.preview
              /\ Len(Displayed) <= 5
              /\ Displayed = FirstFive(DistinctValid(FieldOrFiles(rawInput, "preview"), {}))
        /\ IsActive(normOutput) =>
              /\ Displayed = normOutput.all
              /\ Range(DistinctValid(FieldOrFiles(rawInput, "all"), {})) \subseteq Range(Displayed)

\* An expanded subfolder that displays more than its collapsed 5 items.
C10_Witness ==
    /\ normPc = "subDone"
    /\ IsActive(normOutput)
    /\ Len(normOutput.preview) = 5
    /\ Len(Displayed) > 5
    /\ Len(DistinctValid(FieldOrFiles(rawInput, "preview"), {})) > 5

-----------------------------------------------------------------------------
(* Properties of the View All control *)

ItemIds(items) == { items[i].id : i \in 1..Len(items) }

\* The subfolder has an item in its all list that its preview list lacks.
HasHiddenItem(sub) == ~(ItemIds(sub.all) \subseteq ItemIds(sub.preview))

\* C11: every rendered subfolder that is collapsed and whose all list holds
\* an item that its preview lacks renders the View All control, so every item
\* of all can be displayed.
C11_EveryItemReachable ==
    View = "main" =>
        \A sub \in ShownSubfolders :
            (~IsActive(sub) /\ HasHiddenItem(sub)) => ToggleOffered(sub)

\* The items of a hidden tail are never displayed: a rendered subfolder with
\* an item outside its preview and no View All control is never the expanded
\* one.
C11_HiddenItemsStayHidden ==
    View = "main" =>
        \A sub \in ShownSubfolders :
            (HasHiddenItem(sub) /\ Len(sub.all) <= ViewAllThreshold) => ~IsActive(sub)

-----------------------------------------------------------------------------
(* Properties of the lightbox *)

\* C12: lightboxIndex is null exactly when lightboxItems is empty, and while
\* the lightbox is open the index is a position of lightboxItems, so the
\* "k of n" shown has 1 <= k <= n.
C12_LightboxIndexValid ==
    /\ (lightboxIndex = NullIndex) <=> (lightboxItems = << >>)
    /\ lightboxIndex /= NullIndex =>
          /\ 0 <= lightboxIndex
          /\ lightboxIndex < Len(lightboxItems)
          /\ 1 <= lightboxIndex + 1
          /\ lightboxIndex + 1 <= Len(lightboxItems)

\* The lightbox shows the last of several items.
C12_Witness ==
    /\ LightboxShown
    /\ Len(lightboxItems) >= 2
    /\ lightboxIndex = Len(lightboxItems) - 1

RECURSIVE NextTimes(_, _, _)
\* The index after k nextImage steps from index i.
NextTimes(i, items, k) ==
    IF k = 0 THEN i ELSE NextTimes(NextIndexUpdater(i, items), items, k - 1)

\* What holds of the two updaters at the index and list of the open lightbox.
NavigationRoundTrips ==
    LightboxShown =>
        /\ PrevIndexUpdater(NextIndexUpdater(lightboxIndex, lightboxItems), lightboxItems)
              = lightboxIndex
        /\ NextIndexUpdater(PrevIndexUpdater(lightboxIndex, lightboxItems), lightboxItems)
              = lightboxIndex
        /\ NextTimes(lightboxIndex, lightboxItems, Len(lightboxItems)) = lightboxIndex

\* What a step of nextImage or prevImage does to the state.
NavigationStep ==
    LET n == Len(lightboxItems)
    IN /\ ClickNext =>
             /\ lightboxIndex' = (IF lightboxIndex = n - 1 THEN 0 ELSE lightboxIndex + 1)
             /\ lightboxIndex' = (lightboxIndex + 1) % n
             /\ lightboxItems' = lightboxItems
       /\ ClickPrev =>
             /\ lightboxIndex' = (IF lightboxIndex = 0 THEN n - 1 ELSE lightboxIndex - 1)
             /\ lightboxIndex' = (lightboxIndex + n - 1) % n
             /\ lightboxItems' = lightboxItems

\* C13: nextImage moves the index to the next position and from the last to
\* 0, prevImage to the previous position and from 0 to the last; each undoes
\* the other, n nextImage steps on n items return to the start, and neither
\* changes lightboxItems.
C13_CyclicNavigation == []NavigationRoundTrips /\ [][NavigationStep]_vars

\* The lightbox shows the first of at least three items, from where prevImage
\* wraps to the last.
C13_Witness ==
    /\ LightboxShown
    /\ Len(lightboxItems) >= 3
    /\ lightboxIndex = 0
    /\ PrevIndexUpdater(lightboxIndex, lightboxItems) = Len(lightboxItems) - 1

-----------------------------------------------------------------------------
(* Properties of the view state handlers *)

ExpandedIds == { sub.id : sub \in { x \in ShownSubfolders : IsActive(x) } }

\* What the updater of toggleSubfolder gives for each control rendered.
ToggleResult ==
    View = "main" =>
        LET shown == ShownSubfolders
        IN \A sub \in shown :
              ToggleOffered(sub) =>
                  LET after == ActiveSubfolderUpdater(activeSubfolder, sub.id)
                  IN IF IsActive(sub)
                     THEN after = Null
                     ELSE /\ after = sub.id
                          /\ \A other \in shown : other.id /= sub.id => after /= other.id

\* What a click on a View All / Show Less control does to the state.
ToggleStep ==
    (activeSubfolder' /= activeSubfolder /\ ClickToggleSubfolder) =>
        /\ \/ activeSubfolder /= Null /\ activeSubfolder' = Null
           \/ /\ activeSubfolder' /= Null
              /\ activeSubfolder' /= activeSubfolder
              /\ \E sub \in ShownSubfolders : sub.id = activeSubfolder'
        /\ UNCHANGED << catalog, searchQuery, selectedCategories, favorites,
                        lightboxIndex, lightboxItems >>

\* C14: at most one subfolder id is expanded at a time; toggleSubfolder(s)
\* collapses s when it is the expanded one, and otherwise expands s and
\* collapses the one that was expanded.
C14_ExclusiveExpansion ==
    /\ [](Cardinality(ExpandedIds) <= 1)
    /\ [](activeSubfolder = Null => ExpandedIds = {})
    /\ []ToggleResult
    /\ [][ToggleStep]_vars

\* A subfolder is expanded while another one offers its View All control.
C14_Witness ==
    /\ View = "main"
    /\ \E sub \in ShownSubfolders : IsActive(sub)
    /\ \E other \in ShownSubfolders : ~IsActive(other) /\ ToggleOffered(other)

\* The ids of the items displayed, each with a favorite button.
DisplayedItemIds ==
    LET shown == ShownSubfolders
    IN UNION { ItemIds(Images(sub)) : sub \in shown }

\* What the updater of toggleFavorite gives for each favorite button rendered.
FavoriteResult ==
    View = "main" =>
        \A id \in DisplayedItemIds :
            LET after == FavoritesUpdater(favorites, id)
            IN /\ (id \in after) <=> (id \notin favorites)
               /\ \A other \in (favorites \cup DisplayedItemIds) \ {id} :
                     (other \in after) <=> (other \in favorites)
               /\ FavoritesUpdater(after, id) = favorites

\* What a click on a favorite button does to the state.
FavoriteStep ==
    (favorites' /= favorites /\ ClickFavorite) =>
        /\ \E id \in DisplayedItemIds :
              /\ (favorites' \ favorites) \cup (favorites \ favorites') = {id}
              /\ (id \in favorites') <=> (id \notin favorites)
        /\ UNCHANGED << catalog, searchQuery, selectedCategories, activeSubfolder,
                        lightboxIndex, lightboxItems >>

\* C15: toggleFavorite(id) adds id when it is absent and removes it when it is
\* present, changes the membership of no other id, and applied twice restores
\* the set; the count of the header is the number of favorited ids.
C15_ToggleFavorite ==
    /\ []FavoriteResult
    /\ [](CartCount = Cardinality({ id \in favorites : TRUE }))
    /\ [][FavoriteStep]_vars

\* An item is favorited while another displayed item is not.
C15_Witness ==
    /\ View = "main"
    /\ CartCount = 1
    /\ \E id \in DisplayedItemIds : id \in favorites
    /\ \E id \in DisplayedItemIds : id \notin favorites

\* What the updater of toggleCategoryFilter gives for each filter button and
\* badge.
CategoryFilterResult ==
    View = "main" =>
        \A c \in CategoryIds \cup selectedCategories :
            LET after == SelectedCategoriesUpdater(selectedCategories, c)
                twice == SelectedCategoriesUpdater(after, c)
            IN /\ (c \in after) <=> (c \notin selectedCategories)
               /\ \A other \in (CategoryIds \cup selectedCategories) \ {c} :
                     (other \in after) <=> (other \in selectedCategories)
               /\ twice = selectedCategories
               /\ FilteredCatalogOf(catalog, searchQuery, twice) = filteredCatalog

\* What a click on a filter button or badge does to the state.
CategoryFilterStep ==
    (selectedCategories' /= selectedCategories /\ ClickCategoryFilter) =>
        /\ \E c \in CategoryIds \cup selectedCategories :
              /\ (selectedCategories' \ selectedCategories)
                    \cup (selectedCategories \ selectedCategories') = {c}
              /\ (c \in selectedCategories') <=> (c \notin selectedCategories)
        /\ UNCHANGED << catalog, searchQuery, favorites, activeSubfolder,
                        lightboxIndex, lightboxItems >>

\* C16: toggleCategoryFilter(c) adds c to the selected categories when it is
\* absent and removes it when it is present, changes no other selected
\* category, and applied twice restores the set and with it filteredCatalog.
C16_ToggleCategoryFilter == []CategoryFilterResult /\ [][CategoryFilterStep]_vars

\* Two categories are selected and the filter panel offers a third.
C16_Witness ==
    /\ View = "main"
    /\ showFilters
    /\ Cardinality(selectedCategories) = 2
    /\ CategoryIds \ selectedCategories /= {}

\* What a click on Clear All does to the state.
ClearAllStep ==
    ((selectedCategories' /= selectedCategories) /\ ClickClearAll) =>
        /\ selectedCategories' = {}
        /\ searchQuery' = EmptyStr
        /\ FilteredCatalogOf(catalog', searchQuery', selectedCategories') = catalog'
        /\ UNCHANGED << catalog, favorites, activeSubfolder, lightboxIndex,
                        lightboxItems >>

\* C17: clearAllFilters empties the selected categories and the search text
\* in one step, after which filteredCatalog is catalog; catalog, favorites,
\* the expanded subfolder and the lightbox are unchanged.
C17_ClearAllFilters == [][ClearAllStep]_vars

\* Clear All is offered while a search text and a category filter hide part
\* of a non-empty catalog.
C17_Witness ==
    /\ View = "main"
    /\ showFilters
    /\ Cardinality(selectedCategories) > 0
    /\ Truthy(searchQuery)
    /\ Len(catalog) > 0
    /\ filteredCatalog /= catalog

-----------------------------------------------------------------------------
(* Frame properties *)

\* A step of one of the handlers of the main view.
UiStep ==
    \/ TypeSearch
    \/ ClickCategoryFilter
    \/ ClickClearAll
    \/ ClickToggleSubfolder
    \/ ClickImage
    \/ ClickClose
    \/ ClickPrev
    \/ ClickNext
    \/ ClickFavorite
    \/ ClickViewMode
    \/ ClickFilters
    \/ ClickMobileMenu

\* A step that changes catalog is no step of the user interface: it is the
\* completion of a load.
CatalogChangedByLoad ==
    catalog' /= catalog =>
        /\ ~UiStep
        /\ loading /\ ~loading'
        /\ inflight' = inflight - 1
        /\ GotBody(lastOutcome')

\* A load answered by a failure or by a value that is not an array leaves
\* catalog as it was.
FailedLoadKeepsCatalog ==
    (inflight' < inflight /\ ~(GotBody(lastOutcome') /\ IsJArray(lastOutcome'.body))) =>
        catalog' = catalog

\* What a step that changes catalog is, and what a failed load does to it.
CatalogStep ==
    /\ CatalogChangedByLoad
    /\ catalog' /= catalog =>
          /\ WellFormedBody(lastOutcome'.body)
          /\ catalog' = Normalize(lastOutcome'.body)
    /\ FailedLoadKeepsCatalog

\* C18: no handler of the user interface changes catalog; catalog changes
\* only when a load completes with a well-formed array, and a failed load
\* leaves it as it was.
C18_CatalogReadOnly == [][CatalogStep]_vars

\* Catalog changes only at the completion of a load answered by an array on
\* which the normalization does not throw, well-formed or not, and becomes its
\* normalized form; a failed load leaves it as it was.
CatalogSetFromAnyArray ==
    [][/\ CatalogChangedByLoad
       /\ catalog' /= catalog =>
             /\ IsJArray(lastOutcome'.body)
             /\ ~NormalizeThrows(lastOutcome'.body)
             /\ catalog' = Normalize(lastOutcome'.body)
       /\ FailedLoadKeepsCatalog]_vars

\* What the steps that change one piece of the view state leave unchanged.
IndependenceStep ==
    /\ (searchQuery' /= searchQuery \/ selectedCategories' /= selectedCategories) =>
          UNCHANGED << activeSubfolder, favorites, lightboxIndex, lightboxItems >>
    /\ (activeSubfolder' /= activeSubfolder \/ favorites' /= favorites) =>
          UNCHANGED << searchQuery, selectedCategories, lightboxIndex, lightboxItems >>

\* C19: a change of the search text or of the selected categories leaves the
\* expanded subfolder, the favorites and the lightbox unchanged, so a
\* subfolder hidden by a filter is still the expanded one when shown again;
\* toggleSubfolder and toggleFavorite leave the search text, the selected
\* categories and the lightbox unchanged.
C19_ViewStateIndependent == [][IndependenceStep]_vars

\* The expanded subfolder is hidden by the search, with an item favorited.
C19_Witness ==
    /\ View = "main"
    /\ Truthy(searchQuery)
    /\ activeSubfolder /= Null
    /\ \A sub \in ShownSubfolders : ~IsActive(sub)
    /\ \E i \in 1..Len(catalog) :
          \E j \in 1..Len(catalog[i].subfolders) : IsActive(catalog[i].subfolders[j])
    /\ favorites /= {}

-----------------------------------------------------------------------------
(* Termination of a load *)

\* The last answer was an array that catalog holds in normalized form.
HoldsNormalizedResponse ==
    /\ GotBody(lastOutcome)
    /\ IsJArray(lastOutcome.body)
    /\ ~NormalizeThrows(lastOutcome.body)
    /\ catalog = Normalize(lastOutcome.body)

\* C20: every started load terminates: once the request is answered loading
\* is false and either error is set or catalog holds the normalized response.
C20_LoadEndsInErrorOrCatalog ==
    Settled => (~loading /\ (Truthy(error) \/ HoldsNormalizedResponse))

\* The mount effect runs after the first render and every request is
\* eventually answered.
SpecLive == Spec /\ WF_vars(MountEffect) /\ WF_vars(Answer)

\* Every state with loading = true is followed by one with loading = false.
LoadingEnds == loading ~> ~loading

-----------------------------------------------------------------------------
(* Properties of the views *)

\* C21: the main view is never shown before a load has succeeded: no state
\* has loading = false and error = null while catalog has not been set by a
\* successful load.
C21_MainViewOnlyAfterSuccess ==
    (~loading /\ ~Truthy(error)) => HoldsNormalizedResponse

\* C22: loading = true implies error = null: the start of a load clears the
\* error of the previous one together with setting loading.
C22_LoadingHidesNoError == loading => error = Null

\* A load started by Try Again, after a failure, awaits its answer.
C22_Witness ==
    /\ loading
    /\ retried
    /\ inflight = 1
    /\ FetchFailed(lastOutcome) \/ ~IsArray(tryFetchJson(lastOutcome))

\* The last answer was an array on which the normalization throws.
NormalizationThrew ==
    /\ GotBody(lastOutcome)
    /\ IsJArray(lastOutcome.body)
    /\ NormalizeThrows(lastOutcome.body)

\* The states with loading = false and error = null that do not follow a
\* successful load are those that follow an exception of the normalization.
MainViewAfterSuccessOrException ==
    (~loading /\ ~Truthy(error)) => (HoldsNormalizedResponse \/ NormalizationThrew)

\* A step that opens the lightbox, or opens it anew on another list.
OpensLightbox ==
    /\ lightboxIndex' /= NullIndex
    /\ lightboxIndex = NullIndex \/ lightboxItems' /= lightboxItems

\* The list and index a step that opens the lightbox sets: those of a
\* rendered subfolder, its all list when it is expanded and its preview when
\* it is collapsed.
OpenStep ==
    OpensLightbox =>
        \E sub \in ShownSubfolders :
            /\ lightboxItems' = (IF activeSubfolder = sub.id THEN sub.all ELSE sub.preview)
            /\ lightboxIndex' \in 0..(Len(lightboxItems') - 1)

\* C23: the lightbox is open only in the main view (lightboxIndex != null
\* implies loading = false and error = null), and the list it holds is the
\* list displayed for the clicked subfolder when it was opened.
C23_LightboxOnlyInMainView ==
    /\ [](lightboxIndex /= NullIndex => (~loading /\ error = Null))
    /\ [](LightboxShown => View = "main")
    /\ [][OpenStep]_vars

\* The lightbox holds the complete list of an expanded subfolder.
C23_Witness ==
    /\ lightboxIndex /= NullIndex
    /\ Len(lightboxItems) > PreviewLimit
    /\ \E sub \in ShownSubfolders : IsActive(sub) /\ lightboxItems = sub.all

-----------------------------------------------------------------------------
(* Properties of the selected categories and of the favorites *)

\* C24: every id in selectedCategories is the id of a category of catalog.
C24_SelectedAreCategories == selectedCategories \subseteq CategoryIds

\* Some but not all the categories of the catalog are selected.
C24_Witness ==
    /\ View = "main"
    /\ selectedCategories /= {}
    /\ selectedCategories /= CategoryIds
    /\ selectedCategories \subseteq CategoryIds

\* The ids of the items of the subfolders of catalog.
SubfolderItemIds(sub) == ItemIds(sub.all) \cup ItemIds(sub.preview)

CatalogItemIds ==
    UNION { UNION { SubfolderItemIds(catalog[i].subfolders[j]) :
                      j \in 1..Len(catalog[i].subfolders) } :
              i \in 1..Len(catalog) }

\* C25: every id in favorites is the id of an item of a subfolder of catalog,
\* and favorites is empty until a load has succeeded.
C25_FavoritesAreItems ==
    /\ favorites \subseteq CatalogItemIds
    /\ ~HoldsNormalizedResponse => favorites = {}

\* The favorited item is one that is no longer displayed.
C25_Witness ==
    /\ View = "main"
    /\ favorites /= {}
    /\ favorites \cap DisplayedItemIds = {}

-----------------------------------------------------------------------------
(* Properties of the filter with every category selected *)

\* C26: with every category of the catalog selected and an empty search
\* text, the catalog displayed is the one displayed with no category
\* selected, a category without subfolders included.
C26_AllSelectedShowsAll ==
    (View = "main" /\ ~Truthy(searchQuery) /\ selectedCategories = CategoryIds) =>
        filteredCatalog = FilteredCatalogOf(catalog, searchQuery, {})

\* With every category selected and an empty search text, the categories
\* displayed are those of the catalog that have a subfolder.
AllSelectedShowsNonEmptyCategories ==
    (View = "main" /\ ~Truthy(searchQuery) /\ selectedCategories = CategoryIds
        /\ selectedCategories /= {}) =>
        filteredCatalog = FilterNonEmpty(catalog)

-----------------------------------------------------------------------------
(* Properties of the lists of a normalized subfolder *)

\* C27: all is non-empty whenever preview is non-empty: when the all (or
\* files) field of the record yields no valid item, all is the preview list,
\* so the piece count is not 0 while preview images are displayed.
C27_AllNonEmptyWithPreview ==
    normPc = "subDone" =>
        /\ Len(normOutput.preview) > 0 => Len(normOutput.all) > 0
        /\ Len(normOutput.preview) > 0 => PieceCount(normOutput) > 0
        /\ Len(DistinctValid(FieldOrFiles(rawInput, "all"), {})) = 0 =>
              normOutput.all = normOutput.preview

\* The all field of the record yields no item and the preview field does.
C27_Witness ==
    /\ normPc = "subDone"
    /\ Len(DistinctValid(FieldOrFiles(rawInput, "all"), {})) = 0
    /\ Len(normOutput.preview) > 0
    /\ normOutput.all = normOutput.preview

Min(a, b) == IF a < b THEN a ELSE b

\* C28: preview is the first min(5, |all|) items of all.
C28_PreviewIsPrefix ==
    normPc = "subDone" =>
        normOutput.preview
            = SubSeq(normOutput.all, 1, Min(PreviewLimit, Len(normOutput.all)))

\* When the record has no preview and no all field, or fields that hold the
\* same array, preview is the first min(5, |all|) items of all.
PreviewIsPrefixOfSameArray ==
    (normPc = "subDone"
        /\ FieldOrFiles(rawInput, "preview") = FieldOrFiles(rawInput, "all")) =>
        normOutput.preview
            = SubSeq(normOutput.all, 1, Min(PreviewLimit, Len(normOutput.all)))

=============================================================================
